---- MODULE Spec2Model ----
(***************************************************************************)
(* svgmaze: a seeded PCG32 stream, the recursive random walk that carves   *)
(* a (2W+1) x (2H+1) maze grid, and the run-length SVG renderer.           *)
(*                                                                         *)
(* The program state is the PRNG stream, the two grids of maze_generate,   *)
(* the call stack of maze_visit and the document written by main.          *)
(***************************************************************************)
EXTENDS Integers, Naturals, Sequences, FiniteSets, TLC

(***************************************************************************)
(* Bounds of the model.                                                    *)
(***************************************************************************)
MaxW == 3
MaxH == 3
MaxSeed == 7
MaxCw == 10
MaxPen == 1
MaxRooms == 4

(***************************************************************************)
(* Fixed-width unsigned integers (types.h).  A u64 is held as its eight    *)
(* bytes, least significant first; bit operations work on the bit vector.  *)
(***************************************************************************)
Pow2 == <<1, 2, 4, 8, 16, 32, 64, 128>>

U64(n) == <<n % 256, (n \div 256) % 256, (n \div 65536) % 256, 0, 0, 0, 0, 0>>

RECURSIVE ColSum(_, _, _, _)
ColSum(a, m, k, i) ==
    IF i > k THEN 0 ELSE a[i] * m[k + 1 - i] + ColSum(a, m, k, i + 1)

\* a * m + c modulo 2^64, schoolbook on bytes, the carry out of byte 8 dropped
RECURSIVE MulAddFrom(_, _, _, _, _)
MulAddFrom(a, m, c, k, carry) ==
    IF k > 8 THEN <<>>
    ELSE LET col == ColSum(a, m, k, 1) + c[k] + carry
         IN  <<col % 256>> \o MulAddFrom(a, m, c, k + 1, col \div 256)

MulAdd64(a, m, c) == MulAddFrom(a, m, c, 1, 0)

Add64(a, b) == MulAdd64(a, U64(1), b)

\* x | 1 on a u64
OrOne(a) == [a EXCEPT ![1] = IF a[1] % 2 = 0 THEN a[1] + 1 ELSE a[1]]

Bits(a) == [i \in 0..63 |-> (a[(i \div 8) + 1] \div Pow2[(i % 8) + 1]) % 2]

Shr(b, n) == [i \in DOMAIN b |-> IF i + n \in DOMAIN b THEN b[i + n] ELSE 0]

Shl(b, n) == [i \in DOMAIN b |-> IF i - n \in DOMAIN b THEN b[i - n] ELSE 0]

Xor(a, b) == [i \in DOMAIN a |-> (a[i] + b[i]) % 2]

Or(a, b) == [i \in DOMAIN a |-> IF a[i] + b[i] > 0 THEN 1 ELSE 0]

\* conversion u64 -> u32
Trunc32(b) == [i \in 0..31 |-> b[i]]

\* the value of a 5-bit quantity (rot = oldstate >> 59 fits in 5 bits)
RECURSIVE BitsVal(_, _)
BitsVal(b, i) == IF i > 4 THEN 0 ELSE b[i] * Pow2[i + 1] + BitsVal(b, i + 1)

\* value % n of a 32-bit quantity, most significant bit first
RECURSIVE ModFrom(_, _, _, _)
ModFrom(b, n, i, acc) ==
    IF i < 0 THEN acc ELSE ModFrom(b, n, i - 1, (acc * 2 + b[i]) % n)

Mod(b, n) == ModFrom(b, n, 31, 0)

(***************************************************************************)
(* PRNG (prng.c)                                                           *)
(***************************************************************************)
\* 0x853c49e6748fea9b
PCG32_INITSTATE == <<155, 234, 143, 116, 230, 73, 60, 133>>
\* 0xda3e39cb94b95bdb
PCG32_INITINC == <<219, 91, 185, 148, 203, 57, 62, 218>>
\* 6364136223846793005 = 0x5851f42d4c957f2d
PCG32_MULT == <<45, 127, 149, 76, 45, 244, 81, 88>>

\* the return value of pcg32_nextuint, computed from the old state
PcgOutput(oldstate) ==
    LET old        == Bits(oldstate)
        xorshifted == Trunc32(Shr(Xor(Shr(old, 18), old), 27))
        rot        == BitsVal(Shr(old, 59), 0)
    IN  Or(Shr(xorshifted, rot), Shl(xorshifted, (32 - rot) % 32))

\* the state pcg32_nextuint leaves behind
PcgAdvance(rng) ==
    [rng EXCEPT !.state = MulAdd64(rng.state, PCG32_MULT, OrOne(rng.inc))]

pcg32_nextuint(rng) == [val |-> PcgOutput(rng.state), rng |-> PcgAdvance(rng)]

pcg32_srand(rng, state, inc) == [state |-> state, inc |-> inc]

prng_srand(rng, seed) == pcg32_srand(rng, seed, PCG32_INITINC)

\* prng_nextuint on the process-wide stream
prng_nextuint(rng) == pcg32_nextuint(rng)

(***************************************************************************)
(* Grids (grid.h, grid.c).  A grid* is NULL or the address of a grid on    *)
(* the heap; cells is the row-major buffer, indexed from 0.                *)
(***************************************************************************)
NULL == "NULL"

\* the object a successful grid_alloc_init creates
grid_alloc_init(columns, rows, initval) ==
    [columns |-> columns, rows |-> rows,
     cells |-> [i \in 0..(columns * rows - 1) |-> initval]]

\* the heap after grid_free(p): nothing happens for NULL
grid_free(h, p) ==
    IF p = NULL THEN h ELSE [a \in (DOMAIN h) \ {p} |-> h[a]]

\* the offset of column x, row y
CellIndex(g, x, y) == y * g.columns + x

SetCell(g, x, y, v) == [g EXCEPT !.cells[CellIndex(g, x, y)] = v]

(***************************************************************************)
(* Program state                                                           *)
(***************************************************************************)
VARIABLES
    pc,         \* position in main / maze_generate
    opts,       \* main_opts: random_seed, columns, rows
    stream,     \* "pcg32": draws come from the PCG32 stream of prng.c;
                \* "any": a draw may return any value
    srng,       \* the process-wide pcg32_state
    heap,       \* the grids currently allocated, by address
    walk_grid,  \* maze_generate's walk grid pointer
    maze_grid,  \* maze_generate's maze grid pointer, main's maze
    stack,      \* the activation records of maze_visit, innermost last
    start,      \* maze_generate's start point
    svg_opts,   \* the rendering options main passes to the renderer
    doc,        \* what has been written to standard output
    run,        \* 1 for the first execution of the program, 2 for the second
    first       \* the maze grid the first execution generated

vars == <<pc, opts, stream, srng, heap, walk_grid, maze_grid, stack, start,
          svg_opts, doc, run, first>>

Seeds == {U64(i) : i \in 0..MaxSeed}
            \cup {Add64(PCG32_INITSTATE, U64(i)) : i \in 0..MaxSeed}

NoPoint == [x |-> -1, y |-> -1]

NoHeap == [a \in {} |-> NULL]

NoDoc == [format |-> "none"]

\* main's defaults: corridor_width = 5, pen_radius = 1
DefaultSvgOpts == [corridor_width |-> 5, pen_radius |-> 1]

Init ==
    /\ pc = "srand"
    /\ opts \in [random_seed : Seeds, columns : 1..MaxW, rows : 1..MaxH]
    /\ stream = "pcg32"
    /\ srng = [state |-> PCG32_INITSTATE, inc |-> PCG32_INITINC]
    /\ heap = NoHeap
    /\ walk_grid = NULL
    /\ maze_grid = NULL
    /\ stack = <<>>
    /\ start = NoPoint
    /\ svg_opts = DefaultSvgOpts
    /\ doc = NoDoc
    /\ run = 1
    /\ first = <<>>

(***************************************************************************)
(* main: seed the stream                                                   *)
(***************************************************************************)
Srand ==
    /\ pc = "srand"
    /\ srng' = prng_srand(srng, opts.random_seed)
    /\ pc' = "alloc"
    /\ UNCHANGED <<opts, stream, heap, walk_grid, maze_grid, stack, start,
                   svg_opts, doc, run, first>>

(***************************************************************************)
(* maze_generate                                                           *)
(***************************************************************************)
\* the two grid_alloc_init calls; either may fail and return NULL, and
\* neither result is tested
Alloc ==
    /\ pc = "alloc"
    /\ \E walk_ok \in BOOLEAN, maze_ok \in BOOLEAN :
        /\ walk_grid' = IF walk_ok THEN "walk" ELSE NULL
        /\ maze_grid' = IF maze_ok THEN "maze" ELSE NULL
        /\ heap' = [a \in (IF walk_ok THEN {"walk"} ELSE {})
                            \cup (IF maze_ok THEN {"maze"} ELSE {}) |->
                      IF a = "walk"
                      THEN grid_alloc_init(opts.columns, opts.rows, 0)
                      ELSE grid_alloc_init(opts.columns * 2 + 1,
                                           opts.rows * 2 + 1, 1)]
    /\ pc' = "start"
    /\ UNCHANGED <<opts, stream, srng, stack, start, svg_opts, doc, run,
                   first>>

\* the results prng_nextuint() % n may have: the reduced value and the
\* stream it leaves behind
NextUintMod(rng, n) ==
    IF stream = "pcg32"
    THEN LET d == prng_nextuint(rng)
         IN  {[val |-> Mod(d.val, n), rng |-> d.rng]}
    ELSE {[val |-> v, rng |-> rng] : v \in 0..(n - 1)}

\* pt start = {prng_nextuint() % columns, prng_nextuint() % rows};
\* the two initializers are indeterminately sequenced (C11 6.7.9p23):
\* order "xy" evaluates the x initializer first, "yx" the y initializer
StartPoints(rng, columns, rows, order) ==
    IF order = "xy"
    THEN {[pt |-> [x |-> a.val, y |-> b.val], rng |-> b.rng] :
            <<a, b>> \in {<<a, b>> \in NextUintMod(rng, columns)
                                        \X UNION {NextUintMod(d.rng, rows) :
                                            d \in NextUintMod(rng, columns)} :
                            b \in NextUintMod(a.rng, rows)}}
    ELSE {[pt |-> [x |-> b.val, y |-> a.val], rng |-> b.rng] :
            <<a, b>> \in {<<a, b>> \in NextUintMod(rng, rows)
                                        \X UNION {NextUintMod(d.rng, columns) :
                                            d \in NextUintMod(rng, rows)} :
                            b \in NextUintMod(a.rng, columns)}}

EvalOrders == {"xy", "yx"}

\* a fresh activation record of maze_visit
Frame(curr, prev) ==
    [curr |-> curr, prev |-> prev, done |-> <<0, 0, 0, 0>>, r |-> 0,
     at |-> "check"]

PickStart ==
    /\ pc = "start"
    /\ \E order \in EvalOrders :
        \E s \in StartPoints(srng, opts.columns, opts.rows, order) :
            /\ start' = s.pt
            /\ srng' = s.rng
    /\ pc' = "call"
    /\ UNCHANGED <<opts, stream, heap, walk_grid, maze_grid, stack, svg_opts,
                   doc, run, first>>

\* maze_visit(walk_grid, maze_grid, start, start);
CallVisit ==
    /\ pc = "call"
    /\ stack' = <<Frame(start, start)>>
    /\ pc' = "visit"
    /\ UNCHANGED <<opts, stream, srng, heap, walk_grid, maze_grid, start,
                   svg_opts, doc, run, first>>

(***************************************************************************)
(* maze_visit, one action per step of the innermost activation             *)
(***************************************************************************)
Top == stack[Len(stack)]

SetTop(f) == [stack EXCEPT ![Len(stack)] = f]

Walk == heap[walk_grid]

Maze == heap[maze_grid]

\* OutOfBounds with the upper tests off by one
OutOfBoundsOffByOne(g, curr) ==
    \/ curr.x < 0
    \/ curr.x >= g.columns - 1
    \/ curr.y < 0
    \/ curr.y >= g.rows - 1

\* OutOfBounds without the tests for negative coordinates
OutOfBoundsNoNegative(g, curr) ==
    \/ curr.x >= g.columns
    \/ curr.y >= g.rows

\* the OOB test of maze_visit
OutOfBounds(g, curr) ==
    \/ curr.x < 0
    \/ curr.x >= g.columns
    \/ curr.y < 0
    \/ curr.y >= g.rows

\* the already-visited test of maze_visit
Visited(g, curr) == g.cells[CellIndex(g, curr.x, curr.y)] # 0

\* MazeCurr without the + 1 that skips the wall row and column
MazeCurrNoOffset(curr) == [x |-> curr.x * 2, y |-> curr.y * 2]

\* pt maze_curr = {curr.x * 2 + 1, curr.y * 2 + 1};
MazeCurr(curr) == [x |-> curr.x * 2 + 1, y |-> curr.y * 2 + 1]

\* MazePrev with the direction negated: the wall on the far side
MazePrevOpposite(curr, prev) ==
    [x |-> MazeCurr(curr).x - (prev.x - curr.x),
     y |-> MazeCurr(curr).y - (prev.y - curr.y)]

\* MazePrev with the direction forgotten: the room cell again
MazePrevNoDir(curr, prev) == MazeCurr(curr)

\* pt dir = prev - curr;  pt maze_prev = maze_curr + dir;
MazePrev(curr, prev) ==
    [x |-> MazeCurr(curr).x + (prev.x - curr.x),
     y |-> MazeCurr(curr).y + (prev.y - curr.y)]

directions == <<[x |-> 1, y |-> 0], [x |-> -1, y |-> 0],
                [x |-> 0, y |-> 1], [x |-> 0, y |-> -1]>>

\* NotAllDone testing only the first three slots
NotAllDoneThree(done) == done[1] = 0 \/ done[2] = 0 \/ done[3] = 0

\* the condition of the shuffle loop
NotAllDone(done) ==
    done[1] = 0 \/ done[2] = 0 \/ done[3] = 0 \/ done[4] = 0

\* the neighbour the loop body recurses into
Neighbour(curr, r) ==
    [x |-> curr.x + directions[r + 1].x, y |-> curr.y + directions[r + 1].y]

\* return from the innermost activation; the outermost returns to
\* maze_generate
Return ==
    /\ stack' = SubSeq(stack, 1, Len(stack) - 1)
    /\ pc' = IF Len(stack) = 1 THEN "free" ELSE "visit"

\* the two base cases
VisitCheck ==
    /\ pc = "visit"
    /\ Top.at = "check"
    /\ walk_grid # NULL
    /\ IF OutOfBounds(Walk, Top.curr) \/ Visited(Walk, Top.curr)
       THEN Return
       ELSE /\ stack' = SetTop([Top EXCEPT !.at = "mark"])
            /\ pc' = pc
    /\ UNCHANGED <<opts, stream, srng, heap, walk_grid, maze_grid, start,
                   svg_opts, doc, run, first>>

\* walk_grid->cells[...] = 1
VisitMark ==
    /\ pc = "visit"
    /\ Top.at = "mark"
    /\ heap' = [heap EXCEPT ![walk_grid] =
                    SetCell(@, Top.curr.x, Top.curr.y, 1)]
    /\ stack' = SetTop([Top EXCEPT !.at = "carve_curr"])
    /\ UNCHANGED <<pc, opts, stream, srng, walk_grid, maze_grid, start,
                   svg_opts, doc, run, first>>

\* maze_grid->cells[maze_curr] = 0
CarveCurr ==
    /\ pc = "visit"
    /\ Top.at = "carve_curr"
    /\ maze_grid # NULL
    /\ heap' = [heap EXCEPT ![maze_grid] =
                    SetCell(@, MazeCurr(Top.curr).x, MazeCurr(Top.curr).y, 0)]
    /\ stack' = SetTop([Top EXCEPT !.at = "carve_prev"])
    /\ UNCHANGED <<pc, opts, stream, srng, walk_grid, maze_grid, start,
                   svg_opts, doc, run, first>>

\* maze_grid->cells[maze_prev] = 0
CarvePrev ==
    /\ pc = "visit"
    /\ Top.at = "carve_prev"
    /\ heap' = [heap EXCEPT ![maze_grid] =
                    SetCell(@, MazePrev(Top.curr, Top.prev).x,
                               MazePrev(Top.curr, Top.prev).y, 0)]
    /\ stack' = SetTop([Top EXCEPT !.at = "loop"])
    /\ UNCHANGED <<pc, opts, stream, srng, walk_grid, maze_grid, start,
                   svg_opts, doc, run, first>>

\* while (!done[0] || !done[1] || !done[2] || !done[3])
LoopTest ==
    /\ pc = "visit"
    /\ Top.at = "loop"
    /\ IF NotAllDone(Top.done)
       THEN /\ stack' = SetTop([Top EXCEPT !.at = "draw"])
            /\ pc' = pc
       ELSE Return
    /\ UNCHANGED <<opts, stream, srng, heap, walk_grid, maze_grid, start,
                   svg_opts, doc, run, first>>

\* u32 r = prng_nextuint() % 4;
Draw ==
    /\ pc = "visit"
    /\ Top.at = "draw"
    /\ \E d \in NextUintMod(srng, 4) :
        /\ srng' = d.rng
        /\ stack' = SetTop([Top EXCEPT !.r = d.val, !.at = "retry"])
    /\ UNCHANGED <<pc, opts, stream, heap, walk_grid, maze_grid, start,
                   svg_opts, doc, run, first>>

\* while (done[r]) { r = prng_nextuint() % 4; }
Retry ==
    /\ pc = "visit"
    /\ Top.at = "retry"
    /\ IF Top.done[Top.r + 1] # 0
       THEN \E d \in NextUintMod(srng, 4) :
                /\ srng' = d.rng
                /\ stack' = SetTop([Top EXCEPT !.r = d.val])
       ELSE /\ srng' = srng
            /\ stack' = SetTop([Top EXCEPT !.at = "recurse"])
    /\ UNCHANGED <<pc, opts, stream, heap, walk_grid, maze_grid, start,
                   svg_opts, doc, run, first>>

\* done[r] = 1; dir = directions[r]; maze_visit(..., curr + dir, curr);
\* r is local to the loop body and dead once the call is made
Recurse ==
    /\ pc = "visit"
    /\ Top.at = "recurse"
    /\ stack' = Append(SetTop([Top EXCEPT !.done[Top.r + 1] = 1, !.r = 0,
                                          !.at = "loop"]),
                       Frame(Neighbour(Top.curr, Top.r), Top.curr))
    /\ UNCHANGED <<pc, opts, stream, srng, heap, walk_grid, maze_grid, start,
                   svg_opts, doc, run, first>>

\* Reading walk_grid->columns or writing maze_grid->cells through a NULL
\* pointer is undefined behaviour: the process is killed, or anything else
\* happens.
UBOutcomes == {"SIGSEGV", "undefined"}

NullDeref ==
    /\ pc = "visit"
    /\ \/ Top.at = "check" /\ walk_grid = NULL
       \/ Top.at = "carve_curr" /\ maze_grid = NULL
    /\ pc' \in UBOutcomes
    /\ UNCHANGED <<opts, stream, srng, heap, walk_grid, maze_grid, stack,
                   start, svg_opts, doc, run, first>>

\* grid_free(walk_grid); return maze_grid;
Free ==
    /\ pc = "free"
    /\ heap' = grid_free(heap, walk_grid)
    /\ pc' = "output"
    /\ UNCHANGED <<opts, stream, srng, walk_grid, maze_grid, stack, start,
                   svg_opts, doc, run, first>>

\* the walk cell the next step of the innermost activation addresses: the
\* visited test reads walk_grid->cells once the OOB test has let the call
\* through, and the mark writes the same cell
WalkAccess ==
    IF /\ pc = "visit"
       /\ walk_grid # NULL
       /\ \/ Top.at = "check" /\ ~OutOfBounds(Walk, Top.curr)
          \/ Top.at = "mark"
    THEN {Top.curr}
    ELSE {}

\* the maze cell the next step of the innermost activation writes: maze_curr,
\* then maze_prev
MazeAccess ==
    IF pc = "visit" /\ maze_grid # NULL /\ Top.at = "carve_curr"
    THEN {MazeCurr(Top.curr)}
    ELSE IF pc = "visit" /\ maze_grid # NULL /\ Top.at = "carve_prev"
         THEN {MazePrev(Top.curr, Top.prev)}
         ELSE {}

(***************************************************************************)
(* Rendering (maze.c).  A <line> element is the record of its attributes.  *)
(***************************************************************************)
Line(x1, y1, x2, y2) == [x1 |-> x1, y1 |-> y1, x2 |-> x2, y2 |-> y2]

Cell(g, x, y) == g.cells[y * g.columns + x]

\* while (x < x_ && maze->cells[y * x_ + x]) { if (x % 2 != 0) x2 += cw; ++x; }
RECURSIVE HWallScan(_, _, _, _, _)
HWallScan(g, y, x, x2, cw) ==
    IF x < g.columns /\ Cell(g, x, y) # 0
    THEN HWallScan(g, y, x + 1, IF x % 2 # 0 THEN x2 + cw ELSE x2, cw)
    ELSE [x |-> x, x2 |-> x2]

\* HOpenScan without x1 = x2: the start of the next line is not moved
RECURSIVE HOpenScanKeepStart(_, _, _, _, _, _)
HOpenScanKeepStart(g, y, x, x1, x2, cw) ==
    IF x < g.columns /\ Cell(g, x, y) = 0
    THEN HOpenScanKeepStart(g, y, x + 1, x1, x2 + cw, cw)
    ELSE [x |-> x, x1 |-> x1, x2 |-> x2]

\* while (x < x_ && !maze->cells[y * x_ + x]) { x2 += cw; x1 = x2; ++x; }
RECURSIVE HOpenScan(_, _, _, _, _, _)
HOpenScan(g, y, x, x1, x2, cw) ==
    IF x < g.columns /\ Cell(g, x, y) = 0
    THEN HOpenScan(g, y, x + 1, x2 + cw, x2 + cw, cw)
    ELSE [x |-> x, x1 |-> x1, x2 |-> x2]

\* for (u32 x = 0, x_ = maze->columns; x < x_;) { ... } of one row
RECURSIVE HRow(_, _, _, _, _, _, _)
HRow(g, y, x, x1, x2, ypos, cw) ==
    IF x < g.columns
    THEN LET w == HWallScan(g, y, x, x2, cw)
             o == HOpenScan(g, y, w.x, x1, w.x2, cw)
         IN  (IF w.x2 > x1 THEN <<Line(x1, ypos, w.x2, ypos)>> ELSE <<>>)
                 \o HRow(g, y, o.x, o.x1, o.x2, ypos, cw)
    ELSE <<>>

\* for (u32 y = 0, y_ = maze->rows; y < y_; y += 2) { ...; ypos += cw; }
RECURSIVE HPass(_, _, _, _)
HPass(g, y, ypos, cw) ==
    IF y < g.rows
    THEN HRow(g, y, 0, 0, 0, ypos, cw) \o HPass(g, y + 2, ypos + cw, cw)
    ELSE <<>>

\* VWallScan advancing the cursor on the even rows (the pillars) instead
RECURSIVE VWallScanEvenRows(_, _, _, _, _)
VWallScanEvenRows(g, x, y, y2, cw) ==
    IF y < g.rows /\ Cell(g, x, y) # 0
    THEN VWallScanEvenRows(g, x, y + 1, IF y % 2 = 0 THEN y2 + cw ELSE y2, cw)
    ELSE [y |-> y, y2 |-> y2]

\* while (y < y_ && maze->cells[y * x_ + x]) { if (y % 2 != 0) y2 += cw; ++y; }
RECURSIVE VWallScan(_, _, _, _, _)
VWallScan(g, x, y, y2, cw) ==
    IF y < g.rows /\ Cell(g, x, y) # 0
    THEN VWallScan(g, x, y + 1, IF y % 2 # 0 THEN y2 + cw ELSE y2, cw)
    ELSE [y |-> y, y2 |-> y2]

\* while (y < y_ && !maze->cells[y * x_ + x]) { y2 += cw; y1 = y2; ++y; }
RECURSIVE VOpenScan(_, _, _, _, _, _)
VOpenScan(g, x, y, y1, y2, cw) ==
    IF y < g.rows /\ Cell(g, x, y) = 0
    THEN VOpenScan(g, x, y + 1, y2 + cw, y2 + cw, cw)
    ELSE [y |-> y, y1 |-> y1, y2 |-> y2]

\* for (u32 y = 0, y_ = maze->rows; y < y_;) { ... } of one column
RECURSIVE VColumn(_, _, _, _, _, _, _)
VColumn(g, x, y, y1, y2, xpos, cw) ==
    IF y < g.rows
    THEN LET w == VWallScan(g, x, y, y2, cw)
             o == VOpenScan(g, x, w.y, y1, w.y2, cw)
         IN  (IF w.y2 > y1 THEN <<Line(xpos, y1, xpos, w.y2)>> ELSE <<>>)
                 \o VColumn(g, x, o.y, o.y1, o.y2, xpos, cw)
    ELSE <<>>

\* for (u32 x = 0, x_ = maze->columns; x < x_; x += 2) { ...; xpos += cw; }
RECURSIVE VPass(_, _, _, _)
VPass(g, x, xpos, cw) ==
    IF x < g.columns
    THEN VColumn(g, x, 0, 0, 0, xpos, cw) \o VPass(g, x + 2, xpos + cw, cw)
    ELSE <<>>

\* the document maze_draw_svg prints
maze_draw_svg(g, o) ==
    [format       |-> "svg",
     viewBox      |-> <<0, 0, (g.columns \div 2) * o.corridor_width,
                              (g.rows \div 2) * o.corridor_width>>,
     stroke_width |-> o.pen_radius,
     lines        |-> HPass(g, 0, 0, o.corridor_width)
                          \o VPass(g, 0, 0, o.corridor_width)]

\* the text maze_draw_ascii prints: one glyph per cell, one line per row
maze_draw_ascii(g, fg, bg) ==
    [format |-> "ascii",
     rows   |-> [y \in 1..g.rows |->
                    [x \in 1..g.columns |->
                        IF Cell(g, x - 1, y - 1) # 0 THEN fg ELSE bg]]]

\* main: if (0 == strcmp("svg", opts.output)) draw svg else print ascii
Output ==
    /\ pc = "output"
    /\ \/ \E cw \in 1..MaxCw, pen \in 0..MaxPen :
            /\ svg_opts' = [corridor_width |-> cw, pen_radius |-> pen]
            /\ doc' = maze_draw_svg(Maze, svg_opts')
       \/ /\ svg_opts' = svg_opts
          /\ doc' = maze_draw_ascii(Maze, "#", " ")
    /\ pc' = "cleanup"
    /\ UNCHANGED <<opts, stream, srng, heap, walk_grid, maze_grid, stack,
                   start, run, first>>

\* main: grid_free(maze); return 0;  `first` keeps the first execution's maze
Exit ==
    /\ pc = "cleanup"
    /\ heap' = grid_free(heap, maze_grid)
    /\ first' = IF run = 1 THEN Maze ELSE first
    /\ pc' = "exit"
    /\ UNCHANGED <<opts, stream, srng, walk_grid, maze_grid, stack, start,
                   svg_opts, doc, run>>

\* the program is executed a second time with the same arguments
Rerun ==
    /\ pc = "exit"
    /\ run = 1
    /\ run' = 2
    /\ pc' = "srand"
    /\ srng' = [state |-> PCG32_INITSTATE, inc |-> PCG32_INITINC]
    /\ walk_grid' = NULL
    /\ maze_grid' = NULL
    /\ stack' = <<>>
    /\ start' = NoPoint
    /\ svg_opts' = DefaultSvgOpts
    /\ doc' = NoDoc
    /\ UNCHANGED <<opts, stream, heap, first>>

Next ==
    \/ Srand
    \/ Alloc
    \/ PickStart
    \/ CallVisit
    \/ VisitCheck
    \/ VisitMark
    \/ CarveCurr
    \/ CarvePrev
    \/ LoopTest
    \/ Draw
    \/ Retry
    \/ Recurse
    \/ NullDeref
    \/ Free
    \/ Output
    \/ Exit
    \/ Rerun

Spec == Init /\ [][Next]_vars

(***************************************************************************)
(* One execution in which every draw may return any value: every seed,     *)
(* every start room and every order of directions, for the mazes of at     *)
(* most MaxRooms rooms.                                                    *)
(***************************************************************************)
InitAnyDraw ==
    /\ pc = "srand"
    /\ opts \in {o \in [random_seed : {U64(1)}, columns : 1..MaxRooms,
                                               rows : 1..MaxRooms] :
                    o.columns * o.rows <= MaxRooms}
    /\ stream = "any"
    /\ srng = [state |-> PCG32_INITSTATE, inc |-> PCG32_INITINC]
    /\ heap = NoHeap
    /\ walk_grid = NULL
    /\ maze_grid = NULL
    /\ stack = <<>>
    /\ start = NoPoint
    /\ svg_opts = DefaultSvgOpts
    /\ doc = NoDoc
    /\ run = 1
    /\ first = <<>>

NextOnce ==
    \/ Srand
    \/ Alloc
    \/ PickStart
    \/ CallVisit
    \/ VisitCheck
    \/ VisitMark
    \/ CarveCurr
    \/ CarvePrev
    \/ LoopTest
    \/ Draw
    \/ Retry
    \/ Recurse
    \/ NullDeref
    \/ Free
    \/ Output
    \/ Exit

SpecAnyDraw == InitAnyDraw /\ [][NextOnce]_vars

(***************************************************************************)
(* The same execution under fairness.  The program is sequential and keeps *)
(* running while it has a next step (weak fairness of NextOnce).  A redraw *)
(* of the rejection loop that lands on a slot not yet taken stays possible *)
(* for as long as the loop redraws, and the draws are fair when such a     *)
(* redraw eventually happens (weak fairness of RetryFresh).                *)
(***************************************************************************)
\* while (done[r]) { r = prng_nextuint() % 4; } leaving the loop: the slot
\* drawn was taken and the slot redrawn is not
RetryFresh ==
    /\ Retry
    /\ Top.done[Top.r + 1] # 0
    /\ stack'[Len(stack)].done[stack'[Len(stack)].r + 1] = 0

\* the same redraw landing on a taken slot again
RetryTaken ==
    /\ Retry
    /\ Top.done[Top.r + 1] # 0
    /\ stack'[Len(stack)].done[stack'[Len(stack)].r + 1] # 0

FairAnyDraw ==
    InitAnyDraw /\ [][NextOnce]_vars /\ WF_vars(NextOnce) /\ WF_vars(RetryFresh)

(***************************************************************************)
(* Properties                                                              *)
(***************************************************************************)
W == opts.columns

H == opts.rows

\* maze_generate has returned and main still holds the maze
Generated == pc \in {"output", "cleanup"}

\* the maze grid exists (allocated and not yet freed)
MazeLive == maze_grid # NULL /\ maze_grid \in DOMAIN heap

WalkLive == walk_grid # NULL /\ walk_grid \in DOMAIN heap

Rooms == (0..(W - 1)) \X (0..(H - 1))

\* the cells of mixed parity strictly between two adjacent rooms
BetweenCells ==
    {c \in (1..(2 * W - 1)) \X (1..(2 * H - 1)) : (c[1] + c[2]) % 2 = 1}

CarvedEdges(g) == {c \in BetweenCells : Cell(g, c[1], c[2]) = 0}

\* the two rooms a between-room cell separates
EdgeEnds(c) ==
    IF c[1] % 2 = 0
    THEN {<<c[1] \div 2 - 1, (c[2] - 1) \div 2>>,
          <<c[1] \div 2, (c[2] - 1) \div 2>>}
    ELSE {<<(c[1] - 1) \div 2, c[2] \div 2 - 1>>,
          <<(c[1] - 1) \div 2, c[2] \div 2>>}

RECURSIVE ReachFrom(_, _)
ReachFrom(S, E) ==
    LET T == S \cup UNION {EdgeEnds(e) :
                            e \in {d \in E : EdgeEnds(d) \cap S # {}}}
    IN  IF T = S THEN S ELSE ReachFrom(T, E)

Connected(E) == ReachFrom({<<0, 0>>}, E) = Rooms

Degree(n, E) == Cardinality({e \in E : n \in EdgeEnds(e)})

\* remove the edges that end in a leaf until none is left to remove: what
\* remains is empty exactly when the graph has no cycle
RECURSIVE Prune(_)
Prune(E) ==
    LET L == {e \in E : \E n \in EdgeEnds(e) : Degree(n, E) = 1}
    IN  IF L = {} THEN E ELSE Prune(E \ L)

Acyclic(E) == Prune(E) = {}

\* C1: when maze_generate has returned, the rooms with the carved
\* between-room cells as edges form a spanning tree: connected, acyclic,
\* exactly W*H - 1 edges.
C1_SpanningTree ==
    Generated =>
        LET E == CarvedEdges(Maze)
        IN  /\ Connected(E)
            /\ Acyclic(E)
            /\ Cardinality(E) = W * H - 1

\* a generated 3x3 maze whose tree branches (some room has three carved sides)
C1_Witness ==
    /\ pc = "output"
    /\ W = 3
    /\ H = 3
    /\ \E n \in Rooms : Degree(n, CarvedEdges(Maze)) >= 3
    /\ Cardinality(CarvedEdges(Maze)) = 8

\* C2: when the walk has returned every walk cell is marked visited, and
\* every room cell (2i+1, 2j+1) of the returned maze is 0, whatever the start
\* room and the orders of directions drawn.
C2_AllRoomsOpen ==
    /\ pc = "free" =>
        /\ \A n \in Rooms : Visited(Walk, [x |-> n[1], y |-> n[2]])
        /\ \A n \in Rooms : Cell(Maze, 2 * n[1] + 1, 2 * n[2] + 1) = 0
    /\ Generated =>
        \A n \in Rooms : Cell(Maze, 2 * n[1] + 1, 2 * n[2] + 1) = 0

\* a 2x2 walk started in the far corner has returned with all rooms open
C2_Witness ==
    /\ pc = "free"
    /\ W = 2
    /\ H = 2
    /\ start = [x |-> 1, y |-> 1]
    /\ \A n \in Rooms : Cell(Maze, 2 * n[1] + 1, 2 * n[2] + 1) = 0

\* C3: every pillar cell (2i, 2j) is 1 in every state of generation and in
\* the returned maze: no carve writes a cell with two even coordinates.
C3_PillarsStayWalls ==
    MazeLive =>
        \A i \in 0..W, j \in 0..H : Cell(Maze, 2 * i, 2 * j) = 1

\* a non-start room has just carved its room cell and its connecting wall
C3_Witness ==
    /\ pc = "visit"
    /\ MazeLive
    /\ Top.at = "loop"
    /\ Top.prev # Top.curr
    /\ Cell(Maze, MazeCurr(Top.curr).x, MazeCurr(Top.curr).y) = 0
    /\ Cell(Maze, Top.curr.x + Top.prev.x + 1, Top.curr.y + Top.prev.y + 1) = 0

\* C4: the outer boundary is never carved: row 0, row 2H, column 0 and column
\* 2W are walls in every state of generation and in the returned maze; the
\* 1x1 maze is one open cell surrounded by eight walls.
C4_BoundaryNeverCarved ==
    MazeLive =>
        /\ \A x \in 0..(2 * W) :
            Cell(Maze, x, 0) = 1 /\ Cell(Maze, x, 2 * H) = 1
        /\ \A y \in 0..(2 * H) :
            Cell(Maze, 0, y) = 1 /\ Cell(Maze, 2 * W, y) = 1
        /\ (Generated /\ W = 1 /\ H = 1) =>
            Maze.cells = [i \in 0..8 |-> IF i = 4 THEN 0 ELSE 1]

\* the walk has carved a room in the last column and last row of a 3x3 maze
\* and the maze has been returned
C4_Witness ==
    /\ Generated
    /\ W = 3
    /\ H = 3
    /\ Cell(Maze, 2 * W - 1, 2 * H - 1) = 0
    /\ Cell(Maze, 1, 1) = 0

\* C5: two executions with the same seed, W and H generate identical maze
\* grids.
C5_SameSeedSameMaze == (run = 2 /\ Generated) => Maze = first

\* the first and second value of the stream after prng_srand(random_seed)
FirstDraw == prng_nextuint(prng_srand(srng, opts.random_seed))

SecondDraw == prng_nextuint(FirstDraw.rng)

\* C6: the start room is (d1 mod W, d2 mod H) for the first draw d1 and the
\* second draw d2 after seeding, and both draws are made before maze_visit
\* is called.
C6_StartUsesDrawsInOrder ==
    /\ start # NoPoint =>
        start = [x |-> Mod(FirstDraw.val, W), y |-> Mod(SecondDraw.val, H)]
    /\ pc = "call" => srng = SecondDraw.rng

\* C7: after a failed allocation the program does not read or write through
\* the missing grid: the failure is reported, and no access through NULL
\* ever ends the run.
C7_AllocFailurePropagates ==
    (walk_grid = NULL \/ maze_grid = NULL) => pc \notin UBOutcomes

Range(q) == {q[i] : i \in DOMAIN q}

\* C8: the 1x1 maze rendered with corridor_width 10 and pen_radius 1 has
\* viewBox 0 0 10 10 and exactly four lines, the four sides, each once.
C8_UnitMazeFourSides ==
    (/\ pc \in {"cleanup", "exit"}
     /\ doc.format = "svg"
     /\ W = 1
     /\ H = 1
     /\ svg_opts = [corridor_width |-> 10, pen_radius |-> 1]) =>
        /\ doc.viewBox = <<0, 0, 10, 10>>
        /\ Len(doc.lines) = 4
        /\ Range(doc.lines) = {Line(0, 0, 10, 0), Line(0, 10, 10, 10),
                               Line(0, 0, 0, 10), Line(10, 0, 10, 10)}

\* the 1x1 maze has been rendered as SVG with those options
C8_Witness ==
    /\ pc = "cleanup"
    /\ doc.format = "svg"
    /\ W = 1
    /\ H = 1
    /\ svg_opts = [corridor_width |-> 10, pen_radius |-> 1]
    /\ Len(doc.lines) = 4

EvenRows(g) == {y \in 0..(g.rows - 1) : y % 2 = 0}

OddColumns(g) == {x \in 0..(g.columns - 1) : x % 2 = 1}

EvenColumns(g) == {x \in 0..(g.columns - 1) : x % 2 = 0}

OddRows(g) == {y \in 0..(g.rows - 1) : y % 2 = 1}

\* <<y, a, b>>: in even row y the odd columns a, a+2, ..., b are walls and
\* the run cannot be extended on either side
HRuns(g) ==
    {r \in EvenRows(g) \X OddColumns(g) \X OddColumns(g) :
        /\ r[2] <= r[3]
        /\ \A c \in OddColumns(g) :
            (r[2] <= c /\ c <= r[3]) => Cell(g, c, r[1]) # 0
        /\ r[2] = 1 \/ Cell(g, r[2] - 2, r[1]) = 0
        /\ r[3] = g.columns - 2 \/ Cell(g, r[3] + 2, r[1]) = 0}

\* <<x, a, b>>: in even column x the odd rows a, a+2, ..., b are walls and
\* the run cannot be extended on either side
VRuns(g) ==
    {r \in EvenColumns(g) \X OddRows(g) \X OddRows(g) :
        /\ r[2] <= r[3]
        /\ \A c \in OddRows(g) :
            (r[2] <= c /\ c <= r[3]) => Cell(g, r[1], c) # 0
        /\ r[2] = 1 \/ Cell(g, r[1], r[2] - 2) = 0
        /\ r[3] = g.rows - 2 \/ Cell(g, r[1], r[3] + 2) = 0}

HRunLine(r, cw) ==
    Line(((r[2] - 1) \div 2) * cw, (r[1] \div 2) * cw,
         ((r[3] + 1) \div 2) * cw, (r[1] \div 2) * cw)

VRunLine(r, cw) ==
    Line((r[1] \div 2) * cw, ((r[2] - 1) \div 2) * cw,
         (r[1] \div 2) * cw, ((r[3] + 1) \div 2) * cw)

IsHorizontal(l) == l.y1 = l.y2

IsVertical(l) == l.x1 = l.x2

\* C9: the horizontal lines of the document are exactly one per maximal run
\* of odd-column wall cells of an even row, with the stated coordinates, and
\* the vertical lines one per maximal run of odd-row wall cells of an even
\* column.
C9_OneLinePerRun ==
    (pc = "cleanup" /\ doc.format = "svg") =>
        LET cw == svg_opts.corridor_width
            hl == SelectSeq(doc.lines, IsHorizontal)
            vl == SelectSeq(doc.lines, IsVertical)
        IN  /\ Len(hl) + Len(vl) = Len(doc.lines)
            /\ Range(hl) = {HRunLine(r, cw) : r \in HRuns(Maze)}
            /\ Len(hl) = Cardinality(HRuns(Maze))
            /\ Range(vl) = {VRunLine(r, cw) : r \in VRuns(Maze)}
            /\ Len(vl) = Cardinality(VRuns(Maze))

\* an SVG document of a maze in which a carved cell splits an even row into
\* two runs, and an even column holds a run that starts below a carved cell
C9_Witness ==
    /\ pc = "cleanup"
    /\ doc.format = "svg"
    /\ svg_opts.corridor_width = 5
    /\ \E r1 \in HRuns(Maze), r2 \in HRuns(Maze) :
            r1[1] = r2[1] /\ r1[3] < r2[2]
    /\ \E r \in VRuns(Maze) : r[2] > 1

\* the activations that have carved: every suspended caller, and the
\* innermost one once it is in its shuffle loop
Carved(i) ==
    i < Len(stack) \/ stack[i].at \in {"loop", "draw", "retry", "recurse"}

VisitedRooms == {n \in Rooms : Visited(Walk, [x |-> n[1], y |-> n[2]])}

\* C10: an accepted room is marked and its room cell and the cell towards prev
\* are 0 before any draw of its shuffle and before any recursive call; prev is
\* the neighbouring room the call came from; a room reached again carves
\* nothing (one carved between-room cell per visited room but the first).
C10_CarveBeforeRecurse ==
    (pc = "visit" /\ WalkLive /\ MazeLive) =>
        /\ \A i \in 1..Len(stack) :
            LET f == stack[i]
            IN  /\ i > 1 =>
                    /\ f.prev = stack[i - 1].curr
                    /\ \E d \in 1..4 :
                        /\ f.curr.x = f.prev.x + directions[d].x
                        /\ f.curr.y = f.prev.y + directions[d].y
                /\ i = 1 => f.prev = f.curr
                /\ Carved(i) =>
                    /\ Visited(Walk, f.curr)
                    /\ Cell(Maze, 2 * f.curr.x + 1, 2 * f.curr.y + 1) = 0
                    /\ Cell(Maze, f.curr.x + f.prev.x + 1,
                                  f.curr.y + f.prev.y + 1) = 0
        /\ Cardinality(CarvedEdges(Maze)) =
            IF VisitedRooms = {} THEN 0
            ELSE IF Top.at \in {"carve_curr", "carve_prev"} /\ Len(stack) > 1
                 THEN Cardinality(VisitedRooms) - 2
                 ELSE Cardinality(VisitedRooms) - 1

\* a call that reaches an already visited room is about to return, while its
\* caller, a non-start room, sits in its shuffle with its cells carved
C10_Witness ==
    LET caller == stack[Len(stack) - 1]
    IN  /\ pc = "visit"
        /\ WalkLive
        /\ MazeLive
        /\ Len(stack) >= 3
        /\ Top.at = "check"
        /\ ~OutOfBounds(Walk, Top.curr)
        /\ Visited(Walk, Top.curr)
        /\ Top.curr # caller.prev
        /\ Cell(Maze, caller.curr.x + caller.prev.x + 1,
                      caller.curr.y + caller.prev.y + 1) = 0

\* maze_generate is inside maze_visit with both grids allocated
Walking == pc = "visit" /\ WalkLive /\ MazeLive

\* C11: under fair draws every call of maze_visit returns and maze_generate
\* terminates: once maze_generate is about to call maze_visit, the outermost
\* call eventually returns to it.
C11_EveryVisitReturns == (pc = "call") ~> (pc = "free")

\* the walk over two allocated grids does terminate under fair draws
C11_WalkTerminates == Walking ~> (pc = "free")

\* a call recurses into a direction only while that direction's slot is free,
\* and returns from its loop only with all four slots taken: each of the four
\* directions exactly once
C11_EachDirectionOnce ==
    [][/\ Recurse => Top.done[Top.r + 1] = 0
       /\ (LoopTest /\ Len(stack') < Len(stack)) => Top.done = <<1, 1, 1, 1>>
      ]_vars

\* without fair draws one shuffle has no bound on its draws: a redraw that
\* hit a taken slot can always be followed by another that does
C11_RedrawCanRepeat ==
    (pc = "visit" /\ Top.at = "retry" /\ Top.done[Top.r + 1] # 0)
        => ENABLED RetryTaken

InWalk(p) == 0 <= p.x /\ p.x < W /\ 0 <= p.y /\ p.y < H

InMaze(p) == 0 <= p.x /\ p.x <= 2 * W /\ 0 <= p.y /\ p.y <= 2 * H

\* C12: every grid access of generation is in range: the walk grid is read or
\* written only at (x, y) with 0 <= x < W and 0 <= y < H, the maze grid is
\* written only at (x, y) with 0 <= x <= 2W and 0 <= y <= 2H, each at an offset
\* inside the cell buffer; a call probes at most one step past an edge, and
\* such a probe (coordinate -1, W or H) addresses no cell.
C12_AccessesInRange ==
    /\ \A p \in WalkAccess :
        /\ InWalk(p)
        /\ CellIndex(Walk, p.x, p.y) \in DOMAIN Walk.cells
    /\ \A p \in MazeAccess :
        /\ InMaze(p)
        /\ CellIndex(Maze, p.x, p.y) \in DOMAIN Maze.cells
    /\ pc = "visit" =>
        \A i \in 1..Len(stack) :
            /\ stack[i].curr.x \in -1..W
            /\ stack[i].curr.y \in -1..H
            /\ i < Len(stack) => InWalk(stack[i].curr)

\* a probe at x = -1 is about to be rejected, made from a room of row 0 that
\* has already had its probe at y = -1 rejected
C12_Witness ==
    /\ Walking
    /\ Len(stack) >= 2
    /\ Top.at = "check"
    /\ Top.curr.x = -1
    /\ WalkAccess = {}
    /\ stack[Len(stack) - 1].curr.y = 0
    /\ stack[Len(stack) - 1].done[4] = 1

====
